---- MODULE Spec2Model ----
(***************************************************************************)
(* trr (tmux-repo-rsync): the workspace lifecycle manager.                 *)
(*                                                                         *)
(* create_repo (src/src/create.rs) and delete_repo (src/src/delete.rs) act *)
(* on three pieces of state outside the process: the sync root with the    *)
(* workspace directories in it, the record store <syncRoot>/.trr-sys with  *)
(* one file per workspace, and the tmux server's sessions and windows.     *)
(*                                                                         *)
(* Text is a sequence of one-character strings, so that the conversions    *)
(* (branch -> directory name, record -> JSON -> record, trimming, case)    *)
(* are computed character by character, as the code computes them.         *)
(***************************************************************************)
EXTENDS Integers, Sequences, FiniteSets, TLC

(***************************************************************************)
(* Bounds of the model.                                                    *)
(***************************************************************************)
\* Invocations of the tool (create or delete) in one behaviour.
MaxOps == 3
\* Longest branch or file content drawn character by character (SpecCodec).
MaxLen == 2
\* Most record files in the store that is listed (SpecList).
MaxFiles == 3

(***************************************************************************)
(* Text.                                                                   *)
(***************************************************************************)
\* Option<T>: None is the empty tuple, Some(v) a tuple of one.
None == <<>>
Some(v) == <<v>>

\* char::is_whitespace, on the characters the model draws.
IsWhitespace(c) == c \in {" ", "\n", "\t", "\r"}

\* A byte that is no valid UTF-8: fs::read_to_string and read_line fail on it.
BadByte == "0xFF"

\* The characters of the model in byte order: String's Ord compares bytes.
ByteOrder ==
  <<"\t", "\n", "\r", " ", "\"", ",", "-", ".", "/",
    "0", "1", "2", "3", "4", "5", "6", "7", "8", "9", ":", "@",
    "A", "B", "Y", "Z", "[", "\\", "]", "_",
    "a", "b", "c", "d", "e", "f", "g", "h", "i", "j", "k", "l", "m",
    "n", "o", "p", "q", "r", "s", "t", "u", "v", "w", "x", "y", "z",
    "{", "}", BadByte>>

Chars == {ByteOrder[i] : i \in 1..Len(ByteOrder)}

CharCode(c) == CHOOSE i \in 1..Len(ByteOrder) : ByteOrder[i] = c

\* str::cmp: lexicographic by byte; a proper prefix is less.
RECURSIVE StrLess(_, _)
StrLess(a, b) ==
  IF b = <<>> THEN FALSE
  ELSE IF a = <<>> THEN TRUE
  ELSE IF Head(a) = Head(b) THEN StrLess(Tail(a), Tail(b))
  ELSE CharCode(Head(a)) < CharCode(Head(b))

\* StartsWith that takes anything for a prefix.
StartsWithAnything(s, p) == TRUE

\* str::starts_with
StartsWith(s, p) == Len(p) <= Len(s) /\ SubSeq(s, 1, Len(p)) = p

\* Drop that drops nothing.
DropNothing(s, n) == s

\* &s[n..]
Drop(s, n) == SubSeq(s, n + 1, Len(s))

\* str::trim: leading and trailing whitespace removed.
RECURSIVE TrimStart(_)
TrimStart(s) ==
  IF s # <<>> /\ IsWhitespace(Head(s)) THEN TrimStart(Tail(s)) ELSE s

RECURSIVE TrimEnd(_)
TrimEnd(s) ==
  IF s # <<>> /\ IsWhitespace(s[Len(s)]) THEN TrimEnd(SubSeq(s, 1, Len(s) - 1)) ELSE s

Trim(s) == TrimEnd(TrimStart(s))

\* str::to_lowercase, on the letters the model draws.
LowerChar(c) ==
  CASE c = "A" -> "a" [] c = "B" -> "b" [] c = "Y" -> "y" [] c = "Z" -> "z" [] OTHER -> c

ToLowercase(s) == [i \in 1..Len(s) |-> LowerChar(s[i])]

\* fs::read_to_string / read_line accept valid UTF-8 only.
IsUtf8(s) == \A i \in 1..Len(s) : s[i] # BadByte

\* All texts over alphabet A of length at most n.
RECURSIVE StringsUpTo(_, _)
StringsUpTo(A, n) ==
  IF n = 0 THEN {<<>>}
  ELSE LET shorter == StringsUpTo(A, n - 1)
       IN  shorter \cup {Append(s, c) : s \in shorter, c \in A}

\* branch_to_directory_name that gives the branch back as it is.
BranchAsDirectoryName(branch) == branch

(***************************************************************************)
(* create.rs: branch_to_directory_name.                                    *)
(***************************************************************************)
\* branch.replace('/', "-")
RECURSIVE branch_to_directory_name(_)
branch_to_directory_name(branch) ==
  IF branch = <<>> THEN <<>>
  ELSE <<IF Head(branch) = "/" THEN "-" ELSE Head(branch)>>
         \o branch_to_directory_name(Tail(branch))

(***************************************************************************)
(* chrono::DateTime<Utc> and its text.  An instant is whole seconds and    *)
(* nanoseconds; chrono writes the seconds, then no fraction or a fraction  *)
(* of 3, 6 or 9 digits, whichever is the shortest that loses nothing, then *)
(* "Z".  The calendar fields of the text are written here as the decimal   *)
(* count of seconds.                                                       *)
(***************************************************************************)
DigitChars == <<"0", "1", "2", "3", "4", "5", "6", "7", "8", "9">>

IsDigit(c) == \E d \in 1..10 : DigitChars[d] = c

DigitValue(c) == (CHOOSE d \in 1..10 : DigitChars[d] = c) - 1

RECURSIVE Pow10(_)
Pow10(n) == IF n = 0 THEN 1 ELSE 10 * Pow10(n - 1)

\* n in decimal, zero-padded to exactly width digits.
RECURSIVE Padded(_, _)
Padded(n, width) ==
  IF width = 0 THEN <<>>
  ELSE Padded(n \div 10, width - 1) \o <<DigitChars[(n % 10) + 1]>>

RECURSIVE Decimal(_)
Decimal(n) ==
  IF n < 10 THEN <<DigitChars[n + 1]>> ELSE Decimal(n \div 10) \o <<DigitChars[(n % 10) + 1]>>

Fraction(nano) ==
  IF nano = 0 THEN <<>>
  ELSE IF nano % 1000000 = 0 THEN <<".">> \o Padded(nano \div 1000000, 3)
  ELSE IF nano % 1000 = 0 THEN <<".">> \o Padded(nano \div 1000, 6)
  ELSE <<".">> \o Padded(nano, 9)

\* Serialize for DateTime<Utc>
DateTimeText(t) == Decimal(t.sec) \o Fraction(t.nano) \o <<"Z">>

\* The value of a run of digits.
RECURSIVE DigitsValue(_)
DigitsValue(ds) ==
  IF ds = <<>> THEN 0 ELSE 10 * DigitsValue(SubSeq(ds, 1, Len(ds) - 1)) + DigitValue(ds[Len(ds)])

\* The length of the run of digits of s that starts at i.
RECURSIVE DigitRun(_, _)
DigitRun(s, i) == IF i <= Len(s) /\ IsDigit(s[i]) THEN 1 + DigitRun(s, i + 1) ELSE 0

\* The instant of a text with n digits of seconds and, when hasFrac, a "."
\* and m digits of fraction after them; None when the text is no instant.
InstantOf(text, n, hasFrac, m) ==
  IF n = 0 \/ (hasFrac /\ m = 0) THEN None
  ELSE IF hasFrac
    THEN IF Len(text) # n + m + 2 \/ text[n + m + 2] # "Z" THEN None
         ELSE IF m > 9
           THEN Some([sec |-> DigitsValue(SubSeq(text, 1, n)),
                      nano |-> DigitsValue(SubSeq(text, n + 2, n + 10))])
         ELSE Some([sec |-> DigitsValue(SubSeq(text, 1, n)),
                    nano |-> DigitsValue(SubSeq(text, n + 2, n + 1 + m)) * Pow10(9 - m)])
  ELSE IF Len(text) # n + 1 \/ text[n + 1] # "Z" THEN None
  ELSE Some([sec |-> DigitsValue(SubSeq(text, 1, n)), nano |-> 0])

FractionAfter(text, n) ==
  InstantOf(text, n, n + 1 <= Len(text) /\ text[n + 1] = ".", DigitRun(text, n + 2))

\* Deserialize for DateTime<Utc>: seconds, an optional fraction of any
\* number of digits (read to nanoseconds), "Z".
ParseDateTime(text) == FractionAfter(text, DigitRun(text, 1))

(***************************************************************************)
(* serde_json: RepositoryMetadata to text and back.                        *)
(***************************************************************************)
\* struct RepositoryMetadata { branch, created_at, directory: Option<String> }
RepositoryMetadata(branch, created_at, directory) ==
  [branch |-> branch, created_at |-> created_at, directory |-> directory]

\* JsonEscape that writes every character as it is.
JsonEscapeNothing(s) == s

\* A string's characters between the quotes: ", \ and the control
\* characters are escaped.
RECURSIVE JsonEscape(_)
JsonEscape(s) ==
  IF s = <<>> THEN <<>>
  ELSE (CASE Head(s) = "\"" -> <<"\\", "\"">>
          [] Head(s) = "\\" -> <<"\\", "\\">>
          [] Head(s) = "\n" -> <<"\\", "n">>
          [] Head(s) = "\r" -> <<"\\", "r">>
          [] Head(s) = "\t" -> <<"\\", "t">>
          [] OTHER -> <<Head(s)>>) \o JsonEscape(Tail(s))

JsonString(s) == <<"\"">> \o JsonEscape(s) \o <<"\"">>

\* "key": "value", indented as to_string_pretty indents a member.
JsonMember(key, value) ==
  <<" ", " ">> \o JsonString(key) \o <<":", " ">> \o JsonString(value)

\* serde_json::to_string_pretty(&metadata); a directory of None is skipped
\* (skip_serializing_if).
to_string_pretty(metadata) ==
  <<"{", "\n">>
    \o JsonMember(<<"b", "r", "a", "n", "c", "h">>, metadata.branch)
    \o <<",", "\n">>
    \o JsonMember(<<"c", "r", "e", "a", "t", "e", "d", "_", "a", "t">>,
                  DateTimeText(metadata.created_at))
    \o (IF metadata.directory = None THEN <<>>
        ELSE <<",", "\n">>
               \o JsonMember(<<"d", "i", "r", "e", "c", "t", "o", "r", "y">>,
                             metadata.directory[1]))
    \o <<"\n", "}">>

\* The first position at or after i that holds no JSON whitespace.
RECURSIVE SkipWs(_, _)
SkipWs(s, i) == IF i <= Len(s) /\ IsWhitespace(s[i]) THEN SkipWs(s, i + 1) ELSE i

ParseFail == [ok |-> FALSE]

\* The rest of a string literal from position i (after the opening quote):
\* its value and the position after the closing quote.
RECURSIVE ParseStringBody(_, _, _)
ParseStringBody(s, i, acc) ==
  IF i > Len(s) THEN ParseFail
  ELSE IF s[i] = "\"" THEN [ok |-> TRUE, val |-> acc, next |-> i + 1]
  ELSE IF s[i] = "\\"
    THEN IF i + 1 > Len(s) THEN ParseFail
         ELSE IF s[i + 1] \in {"\"", "\\", "/"}
           THEN ParseStringBody(s, i + 2, Append(acc, s[i + 1]))
         ELSE IF s[i + 1] = "n" THEN ParseStringBody(s, i + 2, Append(acc, "\n"))
         ELSE IF s[i + 1] = "r" THEN ParseStringBody(s, i + 2, Append(acc, "\r"))
         ELSE IF s[i + 1] = "t" THEN ParseStringBody(s, i + 2, Append(acc, "\t"))
         ELSE ParseFail
  ELSE IF s[i] \in {"\n", "\r", "\t"} THEN ParseFail
  ELSE ParseStringBody(s, i + 1, Append(acc, s[i]))

\* A parsed string as a member's value.
StringValue(r) ==
  IF r.ok THEN [ok |-> TRUE, val |-> Some(r.val), next |-> r.next] ELSE ParseFail

\* A member's value at position i: a string (val is Some) or null (val is
\* None).  Values of other JSON types are outside the model and do not parse.
ParseValue(s, i) ==
  IF i <= Len(s) /\ s[i] = "\"" THEN StringValue(ParseStringBody(s, i + 1, <<>>))
  ELSE IF i + 3 <= Len(s) /\ SubSeq(s, i, i + 3) = <<"n", "u", "l", "l">>
    THEN [ok |-> TRUE, val |-> None, next |-> i + 4]
  ELSE ParseFail

\* The fields seen so far; each is None until its key is read.
NoFields == [branch |-> None, created_at |-> None, directory |-> None]

\* created_at into the fields: the text must be an instant.
TakeCreatedAt(fields, instant) ==
  IF instant = None THEN ParseFail
  ELSE [ok |-> TRUE, fields |-> [fields EXCEPT !.created_at = instant]]

\* One member into the fields: a repeated field, a branch or created_at that
\* is no string, or a created_at that is no instant is an error; an unknown
\* key is ignored.
TakeField(fields, key, val) ==
  IF key = <<"b", "r", "a", "n", "c", "h">>
    THEN IF fields.branch # None \/ val = None THEN ParseFail
         ELSE [ok |-> TRUE, fields |-> [fields EXCEPT !.branch = Some(val[1])]]
  ELSE IF key = <<"c", "r", "e", "a", "t", "e", "d", "_", "a", "t">>
    THEN IF fields.created_at # None \/ val = None THEN ParseFail
         ELSE TakeCreatedAt(fields, ParseDateTime(val[1]))
  ELSE IF key = <<"d", "i", "r", "e", "c", "t", "o", "r", "y">>
    THEN IF fields.directory # None THEN ParseFail
         ELSE [ok |-> TRUE, fields |-> [fields EXCEPT !.directory = Some(val)]]
  ELSE [ok |-> TRUE, fields |-> fields]

\* The members of an object from position i (at a key) to its closing
\* brace: key, colon, value, then a comma and the next member, or the brace.
RECURSIVE ParseMembers(_, _, _)

AfterMember(s, f, e) ==
  IF ~f.ok \/ e > Len(s) THEN ParseFail
  ELSE IF s[e] = "," THEN ParseMembers(s, SkipWs(s, e + 1), f.fields)
  ELSE IF s[e] = "}" THEN [ok |-> TRUE, fields |-> f.fields, next |-> e + 1]
  ELSE ParseFail

AfterValue(s, fields, key, v) ==
  IF ~v.ok THEN ParseFail
  ELSE AfterMember(s, TakeField(fields, key, v.val), SkipWs(s, v.next))

AfterColon(s, fields, key, c) ==
  IF c > Len(s) \/ s[c] # ":" THEN ParseFail
  ELSE AfterValue(s, fields, key, ParseValue(s, SkipWs(s, c + 1)))

AfterKey(s, fields, k) ==
  IF ~k.ok THEN ParseFail ELSE AfterColon(s, fields, k.val, SkipWs(s, k.next))

ParseMembers(s, i, fields) ==
  IF i > Len(s) \/ s[i] # "\"" THEN ParseFail
  ELSE AfterKey(s, fields, ParseStringBody(s, i + 1, <<>>))

\* The object at position open, its first member or closing brace at first.
ParseObject(content, open, first) ==
  IF open > Len(content) \/ content[open] # "{" THEN ParseFail
  ELSE IF first <= Len(content) /\ content[first] = "}"
    THEN [ok |-> TRUE, fields |-> NoFields, next |-> first + 1]
  ELSE ParseMembers(content, first, NoFields)

\* The struct of a parsed object: nothing may follow the object, and branch
\* and created_at must be there; a directory that is missing or null is None.
StructOf(content, r) ==
  IF ~r.ok THEN None
  ELSE IF SkipWs(content, r.next) <= Len(content) THEN None
  ELSE IF r.fields.branch = None \/ r.fields.created_at = None THEN None
  ELSE Some(RepositoryMetadata(
         r.fields.branch[1], r.fields.created_at[1],
         IF r.fields.directory = None THEN None ELSE r.fields.directory[1]))

ObjectFrom(content, open) == ParseObject(content, open, SkipWs(content, open + 1))

\* serde_json::from_str::<RepositoryMetadata>(&content): Some(metadata), or
\* None when content is no object with a branch and a created_at.
from_str(content) == StructOf(content, ObjectFrom(content, SkipWs(content, 1)))

\* LegacyMetadata that takes the branch for the directory name as it is.
LegacyMetadataSameName(branch, now) == RepositoryMetadata(branch, now, Some(branch))

\* The legacy record of a text: the trimmed text is the branch.
LegacyMetadata(branch, now) ==
  RepositoryMetadata(branch, now, Some(branch_to_directory_name(branch)))

MetadataOf(content, parsed, now) ==
  IF parsed # None THEN [ok |-> TRUE, metadata |-> parsed[1]]
  ELSE [ok |-> TRUE, metadata |-> LegacyMetadata(Trim(content), now)]

\* create.rs read_ulid_metadata(path), of a file holding content, read at
\* instant now: Err when the file is no UTF-8 text; the structured record
\* when the text deserializes; otherwise the legacy record of the text.
read_ulid_metadata(content, now) ==
  IF ~IsUtf8(content) THEN [ok |-> FALSE] ELSE MetadataOf(content, from_str(content), now)

(***************************************************************************)
(* config.rs: the configuration create and delete load.                    *)
(***************************************************************************)
\* ".trr-sys", the record store's folder under the sync root.
TrrSys == <<".", "t", "r", "r", "-", "s", "y", "s">>

\* Config: the default's literal alias "@f" -> "feature" and a shell alias
\* "@t" -> "!<command>"; two initialization lines, the first with the
\* placeholder twice (as the default's line 38), and a blank line between
\* them.
Config ==
  [branch_aliases |->
     {<<(<<"@", "f">>), (<<"f", "e", "a", "t", "u", "r", "e">>)>>,
      <<(<<"@", "t">>), (<<"!", "d", "a", "t", "e">>)>>},
   tmux_window_init_commands |->
     <<"v", " ", "@", "@", "a", "r", "g", "s", " ", "@", "@", "a", "r", "g", "s", "\n",
       "\n", "g", "\n">>]

\* What `sh -c <command>` can do: fail to start, or run, print one of these
\* (nothing, for one) and exit with status 0 or not.
ShellOutputs == {<<"f", "e", "a", "t", "u", "r", "e", "/", "x", "\n">>, <<>>}

ShellResults ==
  {[ok |-> FALSE]}
    \cup {[ok |-> TRUE, status |-> st, stdout |-> o] :
            st \in {"ok", "nonzero"}, o \in ShellOutputs}

\* All orders in which a HashMap of these entries can be iterated.
RECURSIVE Orders(_)
Orders(S) ==
  IF S = {} THEN {<<>>}
  ELSE UNION {{<<e>> \o rest : rest \in Orders(S \ {e})} : e \in S}

(***************************************************************************)
(* create.rs: expand_alias.                                                *)
(***************************************************************************)
\* expand_alias(branch, config), the aliases iterated in `order` and the
\* shell answering `sh`: the expanded branch and the subprocesses spawned.
RECURSIVE expand_alias_from(_, _, _, _)
expand_alias_from(branch, order, sh, spawned) ==
  IF order = <<>> THEN [branch |-> branch, spawned |-> spawned]
  ELSE LET alias == Head(order)[1]
           expansion == Head(order)[2]
           suffix == Drop(branch, Len(alias))
       IN  IF ~StartsWith(branch, alias)
             THEN expand_alias_from(branch, Tail(order), sh, spawned)
           ELSE IF expansion # <<>> /\ Head(expansion) = "!"
             THEN IF sh.ok
                    THEN [branch |-> Trim(sh.stdout) \o suffix, spawned |-> spawned + 1]
                    ELSE expand_alias_from(branch, Tail(order), sh, spawned + 1)
           ELSE [branch |-> expansion \o suffix, spawned |-> spawned]

expand_alias(branch, order, sh) == expand_alias_from(branch, order, sh, 0)

(***************************************************************************)
(* create.rs: the text sent to the new window or session.                  *)
(***************************************************************************)
\* args.join(" ")
RECURSIVE Join(_)
Join(args) ==
  IF args = <<>> THEN <<>>
  ELSE IF Len(args) = 1 THEN args[1]
  ELSE args[1] \o <<" ">> \o Join(Tail(args))

\* str::replace(pattern, with): every non-overlapping match, left to right.
RECURSIVE Replace(_, _, _)
Replace(text, pattern, with) ==
  IF text = <<>> THEN <<>>
  ELSE IF StartsWith(text, pattern) THEN with \o Replace(Drop(text, Len(pattern)), pattern, with)
  ELSE <<Head(text)>> \o Replace(Tail(text), pattern, with)

\* A line without the "\r" of its "\r\n" ending.
StripCr(line) ==
  IF line # <<>> /\ line[Len(line)] = "\r" THEN SubSeq(line, 1, Len(line) - 1) ELSE line

\* str::lines: split at "\n" or "\r\n"; no last empty line.
RECURSIVE LinesFrom(_, _)
LinesFrom(text, line) ==
  IF text = <<>> THEN (IF line = <<>> THEN <<>> ELSE <<line>>)
  ELSE IF Head(text) = "\n" THEN <<StripCr(line)>> \o LinesFrom(Tail(text), <<>>)
  ELSE LinesFrom(Tail(text), Append(line, Head(text)))

Lines(text) == LinesFrom(text, <<>>)

RECURSIVE NonBlank(_)
NonBlank(lines) ==
  IF lines = <<>> THEN <<>>
  ELSE IF Trim(Head(lines)) = <<>> THEN NonBlank(Tail(lines))
  ELSE <<Head(lines)>> \o NonBlank(Tail(lines))

\* CommandsToSend that leaves the placeholder in the text.
CommandsUnreplaced(init_commands, args) == NonBlank(Lines(Trim(init_commands)))

\* The commands setup_tmux_environment sends, in order: @@args replaced by
\* the joined arguments, the text trimmed, its blank lines skipped.
CommandsToSend(init_commands, args) ==
  NonBlank(Lines(Trim(Replace(init_commands, <<"@", "@", "a", "r", "g", "s">>, Join(args)))))

\* get_repo_prefix(), here the default token.
RepoPrefix == <<"t", "r", "r">>

\* format!("{repo_prefix}-{branch_name}")
TmuxName(branch) == RepoPrefix \o <<"-">> \o branch

(***************************************************************************)
(* The state.                                                              *)
(***************************************************************************)
VARIABLES
  root,      \* whether the sync root directory exists
  dirs,      \* the names of the directories in the sync root
  store,     \* the files of <syncRoot>/.trr-sys: file name -> content
  sessions,  \* the tmux server's session names
  windows,   \* the tmux windows trr names: <<session, window name>>
  clock,     \* invocations started so far; the instant and the ULID of each
  pc,        \* where the running invocation is; "idle" between invocations
  op,        \* the running (or last) invocation's arguments, environment and locals
  log,       \* what the running (or last) invocation did, in order
  result,    \* how the last invocation ended
  pre        \* the filesystem and tmux state when the invocation started

vars == <<root, dirs, store, sessions, windows, clock, pc, op, log, result, pre>>

(***************************************************************************)
(* The filesystem under the sync root.                                     *)
(***************************************************************************)
\* Exists as a check that never finds the target.
ExistsNever(name) == FALSE

\* PathBuf::from(repo_sync_path).join(name).exists(): joining the empty
\* name gives the sync root itself.
Exists(name) == IF name = <<>> THEN root ELSE name \in dirs

\* Ulid::new(), distinct for every invocation, and the instant Utc::now().
Ulid == clock
Now == [sec |-> clock, nano |-> 0]

\* format!("{ulid}.json")
UlidFileName(ulid) == Decimal(ulid) \o <<".", "j", "s", "o", "n">>

\* The files of the directory create copies from (rsync's source), as it
\* matters when the target is the record store's own folder.
SourceFiles == [n \in {<<"r">>} |-> <<"m", "d", "\n">>]

Without(f, keys) == [k \in (DOMAIN f) \ keys |-> f[k]]

\* f with the entries of g added or overwritten.
Overlay(f, g) == [k \in (DOMAIN f) \cup (DOMAIN g) |-> IF k \in DOMAIN g THEN g[k] ELSE f[k]]

NoFiles == [k \in {} |-> <<>>]

\* The outward state an invocation can change.
World == [root |-> root, dirs |-> dirs, store |-> store,
          sessions |-> sessions, windows |-> windows]

(***************************************************************************)
(* The environment of one invocation.                                      *)
(***************************************************************************)
NoSession == <<>>

\* The session the user runs their own work in.
UserSession == <<"m">>

\* tmux: `which tmux` succeeds; cur: the session $TMUX names, NoSession
\* when the process is not inside tmux; tty: stdin is a terminal.
\* A process inside tmux has tmux installed.
Envs ==
  {env \in [tmux : BOOLEAN, cur : {NoSession} \cup sessions, tty : BOOLEAN] :
     env.cur # NoSession => env.tmux}

\* What one run of an external program can do: exit 0, exit non-zero, or
\* fail to start (the io::Error that `?` propagates).
Outcomes == {"ok", "nonzero", "spawn_err"}

Call(call, arg, status) == [call |-> call, arg |-> arg, status |-> status]

Calls(name) == {i \in 1..Len(log) : log[i].call = name}

\* The branch tokens and extra arguments given on the command line.
RawBranches ==
  {<<"@", "f", "/", "x">>, <<"f", "e", "a", "t", "u", "r", "e", "-", "x">>, <<>>, TrrSys}

ArgLists == {<<>>, <<(<<"p">>), (<<"q">>)>>}

NoEnv == [tmux |-> FALSE, cur |-> NoSession, tty |-> FALSE]

\* An invocation's arguments and locals.  args and env are filled in where
\* the code first reads them (setup_tmux_environment and
\* find_tmux_session_or_window); metadata is the record create writes, None
\* before; listed is the number of repositories listed and selected the one
\* picked, None before or without a pick; answer is the line read at the
\* prompt; found is what find_tmux_session_or_window returned; read is what
\* a reading of the record file returned (SpecCodec); aliases is the alias
\* table a token is expanded under and spawned the number of subprocesses
\* the expansion started (SpecAlias); prefix is what get_repo_prefix returned
\* (SpecPrefix).
NoOp ==
  [kind |-> "none", raw |-> <<>>, args |-> <<>>, env |-> NoEnv,
   branch |-> <<>>, directory |-> <<>>, ulid |-> 0, metadata |-> None,
   todo |-> <<>>, listed |-> 0, selected |-> None, answer |-> <<>>, found |-> None,
   read |-> None, aliases |-> {}, spawned |-> 0, prefix |-> <<>>]

Init ==
  /\ root = FALSE
  /\ dirs = {}
  /\ store = NoFiles
  /\ sessions = {UserSession}
  /\ windows = {}
  /\ clock = 0
  /\ pc = "idle"
  /\ op = NoOp
  /\ log = <<>>
  /\ result = "none"
  /\ pre = World

\* The invocation ends: Ok(()) or Err(..) returned to main.  (A process
\* the operator interrupts ends where it is: the behaviour that stops.)
Finish(r) == pc' = "idle" /\ result' = r

Begin == pc = "idle" /\ clock < MaxOps /\ clock' = clock + 1 /\ pre' = World

(***************************************************************************)
(* create.rs: create_repo, step by step.                                   *)
(***************************************************************************)
\* load_config()? fails (an unreadable or malformed config file): nothing
\* has been done.
CreateConfigError ==
  /\ Begin
  /\ \E raw \in RawBranches : op' = [NoOp EXCEPT !.kind = "create", !.raw = raw]
  /\ log' = <<Call("load_config", <<>>, "io_err")>>
  /\ Finish("err")
  /\ UNCHANGED <<root, dirs, store, sessions, windows>>

\* The branch is expanded, the directory name derived, and the target
\* checked: an existing target ends create with an error.
CreateCheck ==
  /\ Begin
  /\ \E raw \in RawBranches, order \in Orders(Config.branch_aliases), sh \in ShellResults :
       LET expanded_branch == expand_alias(raw, order, sh).branch
           directory_name == branch_to_directory_name(expanded_branch)
       IN  /\ op' = [NoOp EXCEPT !.kind = "create", !.raw = raw,
                                 !.branch = expanded_branch, !.directory = directory_name]
           /\ IF Exists(directory_name) THEN Finish("err")
              ELSE pc' = "c_record" /\ result' = "none"
  /\ log' = <<>>
  /\ UNCHANGED <<root, dirs, store, sessions, windows>>

\* CreateRecord that leaves the record to be written later: it goes on to
\* the target directory with no file in the store.
CreateRecordNotYet ==
  /\ pc = "c_record"
  /\ pc' = "c_mkdir"
  /\ UNCHANGED <<root, dirs, store, sessions, windows, clock, op, log, result, pre>>

\* CreateRecord that goes on to the target directory though the write of
\* the record failed.
CreateRecordWriteIgnored ==
  /\ pc = "c_record"
  /\ root' = TRUE
  /\ dirs' = dirs \cup {TrrSys}
  /\ pc' = "c_mkdir"
  /\ UNCHANGED <<store, sessions, windows, clock, op, log, result, pre>>

\* Ulid::new(), current_dir()?, create_dir_all(.trr-sys)?, fs::write(record)?
\* A failed create_dir_all may have made the sync root already.
CreateRecord ==
  /\ pc = "c_record"
  /\ \/ /\ UNCHANGED <<root, dirs, store, log>>
        /\ op' = op
        /\ Finish("err")
     \/ /\ root' \in {root, TRUE}
        /\ UNCHANGED <<dirs, store, log>>
        /\ op' = op
        /\ Finish("err")
     \/ /\ root' = TRUE
        /\ dirs' = dirs \cup {TrrSys}
        /\ UNCHANGED <<store, log>>
        /\ op' = op
        /\ Finish("err")
     \/ /\ root' = TRUE
        /\ dirs' = dirs \cup {TrrSys}
        /\ store' = Overlay(store,
             [n \in {UlidFileName(Ulid)} |->
                to_string_pretty(RepositoryMetadata(op.branch, Now, Some(op.directory)))])
        /\ op' = [op EXCEPT !.ulid = Ulid,
                            !.metadata = Some(RepositoryMetadata(op.branch, Now, Some(op.directory)))]
        /\ log' = Append(log, Call("write_record", UlidFileName(Ulid), "ok"))
        /\ pc' = "c_mkdir"
        /\ UNCHANGED result
  /\ UNCHANGED <<sessions, windows, clock, pre>>

\* fs::create_dir_all(&target_dir)?
CreateTargetDir ==
  /\ pc = "c_mkdir"
  /\ \/ /\ root' = TRUE
        /\ dirs' = IF op.directory = <<>> THEN dirs ELSE dirs \cup {op.directory}
        /\ log' = Append(log, Call("create_dir_all", op.directory, "ok"))
        /\ pc' = "c_rsync"
        /\ UNCHANGED result
     \/ /\ UNCHANGED <<root, dirs>>
        /\ log' = Append(log, Call("create_dir_all", op.directory, "io_err"))
        /\ Finish("err")
  /\ UNCHANGED <<store, sessions, windows, clock, op, pre>>

\* CreateRsync that does not look at rsync's exit status.
CreateRsyncUnchecked ==
  /\ pc = "c_rsync"
  /\ \E status \in Outcomes :
       /\ log' = Append(log, Call("rsync", op.directory, status))
       /\ IF status # "spawn_err" THEN pc' = "c_git" /\ UNCHANGED result ELSE Finish("err")
  /\ UNCHANGED <<root, dirs, store, sessions, windows, clock, op, pre>>

\* rsync -a --exclude <syncRoot> ... <cwd>/ <target>/ : a run that started
\* copies the source's files into the target (all of them when it exits 0);
\* copied into the record store's folder they are files of the store.
CreateRsync ==
  /\ pc = "c_rsync"
  /\ \E status \in Outcomes :
       /\ log' = Append(log, Call("rsync", op.directory, status))
       /\ IF status = "ok" THEN pc' = "c_git" /\ UNCHANGED result ELSE Finish("err")
       /\ \E copied \in SUBSET (DOMAIN SourceFiles) :
            /\ status = "ok" => copied = DOMAIN SourceFiles
            /\ status = "spawn_err" => copied = {}
            /\ store' = IF op.directory = TrrSys
                        THEN Overlay(store, [n \in copied |-> SourceFiles[n]])
                        ELSE store
  /\ UNCHANGED <<root, dirs, sessions, windows, clock, op, pre>>

\* What `git checkout -b <branch>` takes for a branch name: not empty, not
\* starting with "." or "-", no whitespace (git check-ref-format).
GitAccepts(branch) ==
  /\ branch # <<>>
  /\ Head(branch) \notin {".", "-"}
  /\ \A i \in 1..Len(branch) : ~IsWhitespace(branch[i])

\* git checkout -b <expanded_branch>, in the target directory.
CreateGit ==
  /\ pc = "c_git"
  /\ \E status \in Outcomes :
       /\ status = "ok" => GitAccepts(op.branch)
       /\ log' = Append(log, Call("git", op.branch, status))
       /\ IF status = "ok" THEN pc' = "c_tmux" /\ UNCHANGED result ELSE Finish("err")
  /\ UNCHANGED <<root, dirs, store, sessions, windows, clock, op, pre>>

\* CreateNoTmux that takes the path without tmux in every environment.
CreateNoTmuxAnywhere ==
  /\ pc = "c_tmux"
  /\ \E env \in Envs :
       /\ op' = [op EXCEPT !.env = env]
       /\ log' = Append(log, Call(IF ~env.tmux THEN "warn_no_tmux" ELSE "report_path",
                                  <<>>, "ok"))
  /\ Finish("ok")
  /\ UNCHANGED <<root, dirs, store, sessions, windows, clock, pre>>

\* setup_tmux_environment without tmux (a warning, Ok) and without a
\* terminal and outside tmux (the path is reported, Ok).
CreateNoTmux ==
  /\ pc = "c_tmux"
  /\ \E env \in Envs :
       /\ ~env.tmux \/ (env.cur = NoSession /\ ~env.tty)
       /\ op' = [op EXCEPT !.env = env]
       /\ log' = Append(log, Call(IF ~env.tmux THEN "warn_no_tmux" ELSE "report_path",
                                  <<>>, "ok"))
  /\ Finish("ok")
  /\ UNCHANGED <<root, dirs, store, sessions, windows, clock, pre>>

\* Inside tmux: tmux new-window -n <name> -c <target>, in the current session.
CreateNewWindow ==
  /\ pc = "c_tmux"
  /\ \E env \in Envs, args \in ArgLists, status \in Outcomes :
       /\ env.tmux /\ env.cur # NoSession
       /\ log' = Append(log, Call("new-window", TmuxName(op.branch), status))
       /\ IF status = "ok"
            THEN /\ windows' = windows \cup {<<env.cur, TmuxName(op.branch)>>}
                 /\ op' = [op EXCEPT !.env = env, !.args = args, !.todo =
                             CommandsToSend(Config.tmux_window_init_commands, args)]
                 /\ pc' = "c_send"
                 /\ UNCHANGED result
            ELSE /\ UNCHANGED windows
                 /\ op' = [op EXCEPT !.env = env, !.args = args]
                 /\ Finish("err")
  /\ UNCHANGED <<root, dirs, store, sessions, clock, pre>>

\* Outside tmux, on a terminal: tmux new-session -d -s <name> -c <target>;
\* tmux refuses a session name that is taken.
CreateNewSession ==
  /\ pc = "c_tmux"
  /\ \E env \in Envs, args \in ArgLists, status \in Outcomes :
       /\ env.tmux /\ env.cur = NoSession /\ env.tty
       /\ status = "ok" => TmuxName(op.branch) \notin sessions
       /\ log' = Append(log, Call("new-session", TmuxName(op.branch), status))
       /\ IF status = "ok"
            THEN /\ sessions' = sessions \cup {TmuxName(op.branch)}
                 /\ op' = [op EXCEPT !.env = env, !.args = args, !.todo =
                             CommandsToSend(Config.tmux_window_init_commands, args)]
                 /\ pc' = "c_send"
                 /\ UNCHANGED result
            ELSE /\ UNCHANGED sessions
                 /\ op' = [op EXCEPT !.env = env, !.args = args]
                 /\ Finish("err")
  /\ UNCHANGED <<root, dirs, store, windows, clock, pre>>

\* tmux send-keys -t <name> <command> Enter, for the next command: .status()?
\* fails only when tmux does not start; its exit status is not looked at.
CreateSendKeys ==
  /\ pc = "c_send"
  /\ op.todo # <<>>
  /\ \E status \in Outcomes :
       /\ log' = Append(log, Call("send-keys", Head(op.todo), status))
       /\ IF status = "spawn_err"
            THEN op' = op /\ Finish("err")
            ELSE op' = [op EXCEPT !.todo = Tail(op.todo)] /\ UNCHANGED <<pc, result>>
  /\ UNCHANGED <<root, dirs, store, sessions, windows, clock, pre>>

\* After the last command: tmux select-window (inside tmux) or tmux
\* attach-session (outside), .status()? again.
CreateFocus ==
  /\ pc = "c_send"
  /\ op.todo = <<>>
  /\ \E status \in Outcomes :
       /\ log' = Append(log, Call(IF op.env.cur # NoSession THEN "select-window"
                                  ELSE "attach-session",
                                  TmuxName(op.branch), status))
       /\ Finish(IF status = "spawn_err" THEN "err" ELSE "ok")
  /\ UNCHANGED <<root, dirs, store, sessions, windows, clock, op, pre>>

(***************************************************************************)
(* delete.rs: get_repositories and find_tmux_session_or_window.            *)
(***************************************************************************)
JsonSuffix == <<".", "j", "s", "o", "n">>

\* file_name.strip_suffix(".json").unwrap_or(file_name)
StripJsonSuffix(file_name) ==
  IF Len(file_name) >= Len(JsonSuffix)
     /\ SubSeq(file_name, Len(file_name) - Len(JsonSuffix) + 1, Len(file_name)) = JsonSuffix
  THEN SubSeq(file_name, 1, Len(file_name) - Len(JsonSuffix))
  ELSE file_name

\* struct Repository, of the file `path` whose metadata was read.
Repository(path, metadata) ==
  [ulid |-> StripJsonSuffix(path),
   branch |-> metadata.branch,
   directory |-> IF metadata.directory = None
                 THEN branch_to_directory_name(metadata.branch)
                 ELSE metadata.directory[1],
   path |-> path,
   created_at |-> metadata.created_at]

\* The loop over read_dir, the files met in `order`: a file whose metadata
\* cannot be read is skipped.
ReadOne(path, r) == IF r.ok THEN <<Repository(path, r.metadata)>> ELSE <<>>

RECURSIVE ReadAll(_, _, _)
ReadAll(files, order, now) ==
  IF order = <<>> THEN <<>>
  ELSE ReadOne(Head(order), read_ulid_metadata(files[Head(order)], now))
         \o ReadAll(files, Tail(order), now)

\* repo into a list sorted by branch, after the entries that are not greater.
RECURSIVE InsertByBranch(_, _)
InsertByBranch(sorted, repo) ==
  IF sorted = <<>> THEN <<repo>>
  ELSE IF StrLess(repo.branch, Head(sorted).branch) THEN <<repo>> \o sorted
  ELSE <<Head(sorted)>> \o InsertByBranch(Tail(sorted), repo)

\* SortByBranch that leaves the list in the order of enumeration.
SortByBranchNot(repos) == repos

\* repositories.sort_by(|a, b| a.branch.cmp(&b.branch)): a stable sort.
RECURSIVE SortByBranch(_)
SortByBranch(repos) ==
  IF repos = <<>> THEN <<>>
  ELSE InsertByBranch(SortByBranch(SubSeq(repos, 1, Len(repos) - 1)), repos[Len(repos)])

\* get_repositories(config), read_dir listing the store's files in `order`:
\* nothing when .trr-sys does not exist.
get_repositories(order, now) ==
  IF TrrSys \notin dirs THEN <<>> ELSE SortByBranch(ReadAll(store, order, now))

\* find_tmux_session_or_window that finds a window of the name in any
\* session, inside tmux or not.
FindWindowAnywhere(branch, env) ==
  IF \E w \in windows : w[2] = TmuxName(branch) THEN Some(<<TmuxName(branch), TRUE>>)
  ELSE IF env.tmux /\ TmuxName(branch) \in sessions THEN Some(<<TmuxName(branch), FALSE>>)
  ELSE None

\* find_tmux_session_or_window(branch) in environment env: Some(<<name,
\* is_window>>) or None.  The windows listed are the current session's, and
\* only inside tmux; a tmux that does not start gives None.
find_tmux_session_or_window(branch, env) ==
  LET name == TmuxName(branch)
  IN  IF ~env.tmux THEN None
      ELSE IF env.cur # NoSession /\ <<env.cur, name>> \in windows THEN Some(<<name, TRUE>>)
      ELSE IF name \in sessions THEN Some(<<name, FALSE>>)
      ELSE None

\* The answers typed at the [y/N] prompt, as read_line returns them.
Answers ==
  {<<"y", "\n">>, <<" ", "Y", "\n">>, <<"n", "\n">>, <<"y", "e", "s", "\n">>, <<BadByte, "\n">>}

\* fs::remove_dir_all(<syncRoot>/<name>) that succeeds: the directory goes
\* with all in it; the empty name is the sync root, TrrSys the record store.
RemoveDirAll(name) ==
  IF name = <<>> THEN [root |-> FALSE, dirs |-> {}, store |-> NoFiles]
  ELSE IF name = TrrSys THEN [root |-> root, dirs |-> dirs \ {name}, store |-> NoFiles]
  ELSE [root |-> root, dirs |-> dirs \ {name}, store |-> store]

\* fs::remove_dir_all that fails: the directory stays, and any of what is
\* in it may be gone already.
RemoveDirAllFailed(name) ==
  IF name = <<>>
    THEN {[root |-> root, dirs |-> d,
           store |-> IF TrrSys \in d THEN Without(store, gone) ELSE NoFiles] :
            d \in SUBSET dirs, gone \in SUBSET (DOMAIN store)}
  ELSE IF name = TrrSys
    THEN {[root |-> root, dirs |-> dirs, store |-> Without(store, gone)] :
            gone \in SUBSET (DOMAIN store)}
  ELSE {[root |-> root, dirs |-> dirs, store |-> store]}

(***************************************************************************)
(* delete.rs: delete_repo, step by step.                                   *)
(***************************************************************************)
\* load_config()? or get_repositories(&config)? fails (read_dir of .trr-sys).
DeleteListError ==
  /\ Begin
  /\ op' = [NoOp EXCEPT !.kind = "delete"]
  /\ log' = <<Call("read_dir", <<>>, "io_err")>>
  /\ Finish("err")
  /\ UNCHANGED <<root, dirs, store, sessions, windows>>

\* The records are listed and shown; the user picks one (index >= 1), or
\* none is picked: the list is empty or the selection aborted (index 0).
SelectFrom(repositories) ==
  \E index \in 0..Len(repositories) :
    /\ op' = [NoOp EXCEPT !.kind = "delete", !.listed = Len(repositories),
                          !.selected = IF index = 0 THEN None
                                       ELSE Some(repositories[index])]
    /\ IF index = 0 THEN Finish("ok")
       ELSE pc' = "d_confirm" /\ result' = "none"

DeleteSelect ==
  /\ Begin
  /\ \E order \in Orders(DOMAIN store) :
       SelectFrom(get_repositories(order, [sec |-> clock + 1, nano |-> 0]))
  /\ log' = <<>>
  /\ UNCHANGED <<root, dirs, store, sessions, windows>>

\* The selected repository.
Selected == op.selected[1]

\* Declined that takes every answer for a yes.
DeclinedNever(answer) == FALSE

\* input.trim().to_lowercase() != "y"
Declined(answer) == ToLowercase(Trim(answer)) # <<"y">>

\* The [y/N] prompt: read_line(&mut input)? fails on input that is no
\* UTF-8; an answer other than y ends delete with Ok.
DeleteConfirm ==
  /\ pc = "d_confirm"
  /\ \E answer \in Answers :
       /\ op' = [op EXCEPT !.answer = answer]
       /\ IF ~IsUtf8(answer) THEN Finish("err")
          ELSE IF Declined(answer) THEN Finish("ok")
          ELSE pc' = "d_tmux" /\ UNCHANGED result
  /\ UNCHANGED <<root, dirs, store, sessions, windows, clock, log, pre>>

\* DeleteNoSession that treats a missing session as fatal.
DeleteNoSessionFatal ==
  /\ pc = "d_tmux"
  /\ \E env \in {e \in Envs : ~e.tty} :
       /\ find_tmux_session_or_window(Selected.branch, env) = None
       /\ op' = [op EXCEPT !.env = env, !.found = None]
  /\ Finish("err")
  /\ UNCHANGED <<root, dirs, store, sessions, windows, clock, log, pre>>

\* No window or session of the name is found: nothing is killed.
DeleteNoSession ==
  /\ pc = "d_tmux"
  /\ \E env \in {e \in Envs : ~e.tty} :
       /\ find_tmux_session_or_window(Selected.branch, env) = None
       /\ op' = [op EXCEPT !.env = env, !.found = None]
  /\ pc' = "d_rmdir"
  /\ UNCHANGED <<root, dirs, store, sessions, windows, clock, log, result, pre>>

\* kill_tmux_session_or_window(name, is_window)?: tmux kill-window or
\* kill-session, .status()?: only a tmux that does not start is an error.
DeleteKill ==
  /\ pc = "d_tmux"
  /\ \E env \in {e \in Envs : ~e.tty}, status \in Outcomes :
       LET found == find_tmux_session_or_window(Selected.branch, env)
           name == found[1][1]
           is_window == found[1][2]
       IN  /\ found # None
           /\ op' = [op EXCEPT !.env = env, !.found = found]
           /\ log' = Append(log, Call(IF is_window THEN "kill-window" ELSE "kill-session",
                                      name, status))
           /\ IF status = "ok"
                THEN IF is_window
                       THEN /\ windows' = windows \ {<<env.cur, name>>}
                            /\ UNCHANGED sessions
                       ELSE /\ sessions' = sessions \ {name}
                            /\ windows' = {w \in windows : w[1] # name}
                ELSE UNCHANGED <<sessions, windows>>
           /\ IF status = "spawn_err" THEN Finish("err")
              ELSE pc' = "d_rmdir" /\ UNCHANGED result
  /\ UNCHANGED <<root, dirs, store, clock, pre>>

\* if repo_dir.exists() { fs::remove_dir_all(&repo_dir)? }
DeleteRemoveDir ==
  /\ pc = "d_rmdir"
  /\ IF ~Exists(Selected.directory)
       THEN /\ pc' = "d_rmfile"
            /\ UNCHANGED <<root, dirs, store, log, result>>
       ELSE \/ /\ root' = RemoveDirAll(Selected.directory).root
               /\ dirs' = RemoveDirAll(Selected.directory).dirs
               /\ store' = RemoveDirAll(Selected.directory).store
               /\ log' = Append(log, Call("remove_dir_all", Selected.directory, "ok"))
               /\ pc' = "d_rmfile"
               /\ UNCHANGED result
            \/ /\ \E left \in RemoveDirAllFailed(Selected.directory) :
                    root' = left.root /\ dirs' = left.dirs /\ store' = left.store
               /\ log' = Append(log, Call("remove_dir_all", Selected.directory, "io_err"))
               /\ Finish("err")
  /\ UNCHANGED <<sessions, windows, clock, op, pre>>

\* fs::remove_file(&repo.path)?: a file that is not there is an error.
DeleteRemoveFile ==
  /\ pc = "d_rmfile"
  /\ \/ /\ TrrSys \in dirs /\ Selected.path \in DOMAIN store
        /\ store' = Without(store, {Selected.path})
        /\ log' = Append(log, Call("remove_file", Selected.path, "ok"))
        /\ Finish("ok")
     \/ /\ UNCHANGED store
        /\ log' = Append(log, Call("remove_file", Selected.path,
                                   IF Selected.path \in DOMAIN store THEN "io_err"
                                   ELSE "not_found"))
        /\ Finish("err")
  /\ UNCHANGED <<root, dirs, sessions, windows, clock, op, pre>>

Next ==
  \/ CreateConfigError
  \/ CreateCheck
  \/ CreateRecord
  \/ CreateTargetDir
  \/ CreateRsync
  \/ CreateGit
  \/ CreateNoTmux
  \/ CreateNewWindow
  \/ CreateNewSession
  \/ CreateSendKeys
  \/ CreateFocus
  \/ DeleteListError
  \/ DeleteSelect
  \/ DeleteConfirm
  \/ DeleteNoSession
  \/ DeleteKill
  \/ DeleteRemoveDir
  \/ DeleteRemoveFile

Spec == Init /\ [][Next]_vars

(***************************************************************************)
(* The record file alone: what create writes into it, what may lie in it,  *)
(* and what read_ulid_metadata and get_repositories make of it.            *)
(***************************************************************************)
\* The one record file written and read.
CodecFile == UlidFileName(1)

\* The branches written: every text up to MaxLen over characters that JSON
\* escapes and the naming rule replaces.
CodecBranches == StringsUpTo({"a", "/", "-", " ", "\"", "\\", "\n"}, MaxLen)

\* Instants of writing, with fractions of no, three, six and nine digits.
WriteTimes == {[sec |-> 1, nano |-> n] : n \in {0, 500000000, 120000, 7}}

\* Instants of reading.
ReadTimes == {[sec |-> 8, nano |-> 0], [sec |-> 9, nano |-> 500000000]}

\* A record without the directory field, as older versions wrote it.
OldRecordText == to_string_pretty(RepositoryMetadata(<<"a", "/", "b">>, [sec |-> 1, nano |-> 0], None))

\* What else may lie in a record file: short texts, among them white space
\* and bytes that are no UTF-8; the legacy text of a branch; texts close to
\* a structured record.
PlantedContents ==
  StringsUpTo({"a", "/", " ", "\n", BadByte}, MaxLen)
    \cup {<<"f", "e", "a", "t", "u", "r", "e", "/", "l", "e", "g", "a", "c", "y">>,
          <<"a", "/", "b", "/", "c", "\n">>,
          <<"{", "\"", "b", "r", "a", "n", "c", "h", "\"", ":", "\"", "a", "\"", "}">>,
          <<"{", "}">>,
          <<"n", "u", "l", "l">>,
          OldRecordText,
          OldRecordText \o <<"x">>,
          SubSeq(OldRecordText, 1, Len(OldRecordText) - 1)}

InitCodec ==
  /\ root = TRUE
  /\ dirs = {TrrSys}
  /\ store = NoFiles
  /\ sessions = {UserSession}
  /\ windows = {}
  /\ clock = 0
  /\ pc = "idle"
  /\ op = NoOp
  /\ log = <<>>
  /\ result = "none"
  /\ pre = World

\* create.rs 284-291: the metadata of a branch is serialized and written.
PutMetadata(metadata) ==
  /\ store' = [n \in {CodecFile} |-> to_string_pretty(metadata)]
  /\ op' = [NoOp EXCEPT !.kind = "put", !.branch = metadata.branch,
                        !.metadata = Some(metadata)]

PutRecord ==
  /\ \E branch \in CodecBranches, created_at \in WriteTimes :
       PutMetadata(RepositoryMetadata(branch, created_at,
                                      Some(branch_to_directory_name(branch))))
  /\ UNCHANGED <<root, dirs, sessions, windows, clock, pc, log, result, pre>>

\* Some other content comes to lie in the record file.
PlantFile ==
  /\ \E content \in PlantedContents :
       store' = [n \in {CodecFile} |-> content]
  /\ op' = [NoOp EXCEPT !.kind = "plant"]
  /\ UNCHANGED <<root, dirs, sessions, windows, clock, pc, log, result, pre>>

\* The file is read at instant now, by read_ulid_metadata and through
\* get_repositories.
ReadAt(now, metadata, repositories) ==
  op' = [op EXCEPT !.read = Some([now |-> now, metadata |-> metadata,
                                  repositories |-> repositories])]

ReadBack ==
  /\ CodecFile \in DOMAIN store
  /\ op.read = None
  /\ \E now \in ReadTimes :
       ReadAt(now, read_ulid_metadata(store[CodecFile], now),
              get_repositories(<<CodecFile>>, now))
  /\ UNCHANGED <<root, dirs, store, sessions, windows, clock, pc, log, result, pre>>

NextCodec ==
  \/ PutRecord
  \/ PlantFile
  \/ ReadBack

SpecCodec == InitCodec /\ [][NextCodec]_vars

(***************************************************************************)
(* The store alone: record files come to lie in it, and get_repositories   *)
(* lists them in whatever order read_dir enumerates them.                  *)
(***************************************************************************)
\* The names of the files of the store.
ListFiles == {UlidFileName(n) : n \in 1..MaxFiles}

\* Their contents: legacy texts of branches (two of them of one branch, one
\* with a capital, one empty), a structured record, and bytes that are no
\* UTF-8 text.
ListContents ==
  {<<"b">>, <<"a", "/", "b">>, <<"a">>, <<" ", "a", "\n">>, <<"B">>, <<>>,
   OldRecordText, <<BadByte>>}

InitList ==
  /\ root = TRUE
  /\ dirs = {TrrSys}
  /\ store = NoFiles
  /\ sessions = {UserSession}
  /\ windows = {}
  /\ clock = 0
  /\ pc = "idle"
  /\ op = NoOp
  /\ log = <<>>
  /\ result = "none"
  /\ pre = World

\* A record file comes to lie in the store (written by some create, or by
\* an older version).
PlantEntry ==
  /\ \E name \in ListFiles \ DOMAIN store, content \in ListContents :
       store' = Overlay(store, [n \in {name} |-> content])
  /\ op' = [NoOp EXCEPT !.kind = "plant"]
  /\ UNCHANGED <<root, dirs, sessions, windows, clock, pc, log, result, pre>>

\* get_repositories, read_dir enumerating the files in `order`; the store
\* is listed once as it stands.
ListedAs(now, order, repositories) ==
  op' = [NoOp EXCEPT !.kind = "list",
                     !.read = Some([now |-> now, order |-> order,
                                    repositories |-> repositories])]

ListAll ==
  /\ op.read = None
  /\ \E order \in Orders(DOMAIN store), now \in ReadTimes :
       ListedAs(now, order, get_repositories(order, now))
  /\ UNCHANGED <<root, dirs, store, sessions, windows, clock, pc, log, result, pre>>

NextList ==
  \/ PlantEntry
  \/ ListAll

SpecList == InitList /\ [][NextList]_vars

(***************************************************************************)
(* expand_alias alone, under every small alias table.                      *)
(***************************************************************************)
\* Alias tokens, one a prefix of another, and expansions: two literal ones
\* and a shell directive.
AliasTokens == {<<"@">>, <<"@", "f">>, <<"x">>}
Expansions == {<<"e">>, <<"g", "/">>, <<"!", "c">>}

\* HashMap<String, String>: at most one expansion for an alias.
AliasTables ==
  {T \in SUBSET (AliasTokens \X Expansions) :
     \A p, q \in T : p[1] = q[1] => p = q}

\* The branch tokens typed.
Tokens == StringsUpTo({"@", "f", "x"}, MaxLen)

InitAlias ==
  /\ root = FALSE
  /\ dirs = {}
  /\ store = NoFiles
  /\ sessions = {UserSession}
  /\ windows = {}
  /\ clock = 0
  /\ pc = "idle"
  /\ \E token \in Tokens, table \in AliasTables :
       op = [NoOp EXCEPT !.kind = "token", !.raw = token, !.aliases = table]
  /\ log = <<>>
  /\ result = "none"
  /\ pre = World

\* let expanded_branch = expand_alias(branch, &config), the table iterated
\* in some order and the shell answering in some way (kept in env).
Expanded(expanded, sh) ==
  op' = [op EXCEPT !.kind = "expanded", !.branch = expanded.branch,
                   !.spawned = expanded.spawned, !.env = sh]

ExpandToken ==
  /\ op.kind = "token"
  /\ \E order \in Orders(op.aliases), sh \in ShellResults :
       Expanded(expand_alias(op.raw, order, sh), sh)
  /\ UNCHANGED <<root, dirs, store, sessions, windows, clock, pc, log, result, pre>>

NextAlias == ExpandToken

SpecAlias == InitAlias /\ [][NextAlias]_vars

(***************************************************************************)
(* create.rs / delete.rs: get_repo_name and get_repo_prefix, alone.        *)
(***************************************************************************)
\* chars().take(3)
PrefixLen == 3
Take(s, n) == IF Len(s) <= n THEN s ELSE SubSeq(s, 1, n)

\* str::contains(c)
Contains(s, c) == \E i \in 1..Len(s) : s[i] = c

\* s.split(c).next_back(): what follows the last c, all of s without a c.
RECURSIVE SplitLast(_, _)
SplitLast(s, c) ==
  IF s = <<>> THEN <<>>
  ELSE IF s[Len(s)] = c THEN <<>>
  ELSE Append(SplitLast(SubSeq(s, 1, Len(s) - 1), c), s[Len(s)])

\* str::trim_end_matches(suffix): the suffix removed as often as it ends s.
RECURSIVE TrimEndMatches(_, _)
TrimEndMatches(s, suffix) ==
  IF Len(s) >= Len(suffix) /\ SubSeq(s, Len(s) - Len(suffix) + 1, Len(s)) = suffix
    THEN TrimEndMatches(SubSeq(s, 1, Len(s) - Len(suffix)), suffix)
    ELSE s

DotGit == <<".", "g", "i", "t">>

\* The name parsed from the trimmed remote URL.
NameOfUrl(url) ==
  IF StartsWith(url, <<"h", "t", "t", "p", "s", ":", "/", "/">>) \/ StartsWith(url, <<"h", "t", "t", "p", ":", "/", "/">>)
    THEN Some(TrimEndMatches(SplitLast(url, "/"), DotGit))
  ELSE IF Contains(url, ":")
    THEN Some(TrimEndMatches(SplitLast(SplitLast(url, ":"), "/"), DotGit))
  ELSE None

\* get_repo_name(), `git remote get-url origin` answering remote: None when
\* git does not start or exits non-zero.
get_repo_name(remote) ==
  IF ~remote.ok THEN None ELSE NameOfUrl(Trim(remote.stdout))

\* The prefix taken from the name of the current directory, cwd being
\* current_dir() and its file_name().
PrefixOfCwd(cwd) ==
  IF cwd.ok /\ cwd.file_name # None THEN Take(cwd.file_name[1], PrefixLen)
  ELSE <<"t", "r", "r">>

PrefixOf(repo_name, cwd) ==
  IF repo_name # None THEN Take(repo_name[1], PrefixLen) ELSE PrefixOfCwd(cwd)

\* get_repo_prefix()
get_repo_prefix(remote, cwd) == PrefixOf(get_repo_name(remote), cwd)

\* What `git remote get-url origin` prints: URLs of the kinds in use, with
\* and without an owner, the .git ending and a final "/".
RemoteUrls ==
  {scheme \o owner \o name \o ending \o <<"\n">> :
     scheme \in {<<"h", "t", "t", "p", "s", ":", "/", "/", "h", "/">>, <<"h", "t", "t", "p", ":", "/", "/", "h", "/">>, <<"g", "@", "h", ":">>, <<"s", "s", "h", ":", "/", "/", "h", ":", "2", "/">>, <<"/", "s", "r", "v", "/">>},
     owner \in {<<>>, <<"o", "/">>},
     name \in {<<"r", "e", "p", "o">>, <<"a", "b">>, <<>>},
     ending \in {<<>>, DotGit, <<"/">>}}

Remotes == {[ok |-> FALSE]} \cup {[ok |-> TRUE, stdout |-> u] : u \in RemoteUrls}

\* current_dir(): an error, the root directory (no file name), or a
\* directory with a name.
Cwds ==
  {[ok |-> FALSE], [ok |-> TRUE, file_name |-> None],
   [ok |-> TRUE, file_name |-> Some(<<"w", "o", "r", "k">>)],
   [ok |-> TRUE, file_name |-> Some(<<"w">>)]}

InitPrefix ==
  /\ root = FALSE
  /\ dirs = {}
  /\ store = NoFiles
  /\ sessions = {UserSession}
  /\ windows = {}
  /\ clock = 0
  /\ pc = "idle"
  /\ \E remote \in Remotes, cwd \in Cwds :
       op = [NoOp EXCEPT !.kind = "repo", !.env = [remote |-> remote, cwd |-> cwd]]
  /\ log = <<>>
  /\ result = "none"
  /\ pre = World

\* let repo_prefix = get_repo_prefix()
TakePrefix ==
  /\ op.kind = "repo"
  /\ op' = [op EXCEPT !.kind = "prefixed",
                      !.prefix = get_repo_prefix(op.env.remote, op.env.cwd)]
  /\ UNCHANGED <<root, dirs, store, sessions, windows, clock, pc, log, result, pre>>

NextPrefix == TakePrefix

SpecPrefix == InitPrefix /\ [][NextPrefix]_vars

(***************************************************************************)
(* What the claims speak of.                                               *)
(***************************************************************************)
\* Whether the invocation's target directory existed when it started.
TargetExistedAtStart == IF op.directory = <<>> THEN pre.root ELSE op.directory \in pre.dirs

\* The calls of the log that run rsync, git or tmux.
ToolCalls ==
  {"rsync", "git", "new-window", "new-session", "send-keys", "select-window",
   "attach-session", "kill-window", "kill-session"}

\* The calls of the log that destroy something.
DestructiveCalls == {"kill-window", "kill-session", "remove_dir_all", "remove_file"}

Called(names) == \E i \in 1..Len(log) : log[i].call \in names

\* The invocation has changed nothing outside the process.
NothingChanged == World = pre

\* The file of the record the running create wrote.
RecordFile == UlidFileName(op.ulid)

\* The record each file of the store reads as (at the present instant).
RecordOf(name) == read_ulid_metadata(store[name], Now)

RecordDirectory(name) == Repository(name, RecordOf(name).metadata).directory

ReadableFiles == {n \in DOMAIN store : RecordOf(n).ok}

(***************************************************************************)
(* The claims.                                                             *)
(***************************************************************************)
\* C1: a create whose target directory (the directory name derived from the
\* expanded branch, under the sync root) exists when it is invoked ends with
\* an error at once: no identifier is allocated, no record written, no
\* directory created, rsync, git and tmux never run, and the store, the
\* filesystem and tmux are as they were.
C1_ExistingTargetFailsFast ==
  (op.kind = "create" /\ TargetExistedAtStart) =>
    /\ pc = "idle"
    /\ result = "err"
    /\ op.ulid = 0
    /\ op.metadata = None
    /\ ~Called(ToolCalls \cup {"write_record", "create_dir_all"})
    /\ NothingChanged

\* C1's case: a create for "feature-x" refused because the directory of the
\* workspace of "feature/x" is there.
C1_Witness ==
  /\ op.kind = "create"
  /\ pc = "idle"
  /\ result = "err"
  /\ op.branch = <<"f", "e", "a", "t", "u", "r", "e", "-", "x">>
  /\ op.directory \in pre.dirs
  /\ \E n \in ReadableFiles : RecordOf(n).metadata.branch = <<"f", "e", "a", "t", "u", "r", "e", "/", "x">>

\* C2: between invocations, records and workspace copies exist together: the
\* directory of every record exists, and every workspace directory has
\* exactly one record.
C2_RecordsAndCopiesTogether ==
  pc = "idle" =>
    /\ \A n \in ReadableFiles : Exists(RecordDirectory(n))
    /\ \A d \in dirs \ {TrrSys} :
         Cardinality({n \in ReadableFiles : RecordDirectory(n) = d}) = 1

\* C3: in a create the record file is written before the target directory
\* is created and before rsync runs, and from then on, through every later
\* step and however the create ends, the record file is in the store with
\* the record written.
C3_RecordBeforeCopy ==
  op.kind = "create" =>
    /\ \A i \in 1..Len(log) :
         log[i].call \in {"create_dir_all", "rsync", "git"} \cup ToolCalls =>
           \E j \in 1..(i - 1) : log[j].call = "write_record"
    /\ pc \in {"c_mkdir", "c_rsync", "c_git", "c_tmux", "c_send"} => Called({"write_record"})
    /\ Called({"write_record"}) =>
         /\ RecordFile \in DOMAIN store
         /\ store[RecordFile] = to_string_pretty(op.metadata[1])
         /\ op.metadata[1].branch = op.branch

\* C3's case: a create that fails after its record was written (at rsync).
C3_Witness ==
  /\ op.kind = "create"
  /\ pc = "idle"
  /\ result = "err"
  /\ Len(log) = 3
  /\ log[1].call = "write_record"
  /\ log[2].call = "create_dir_all"
  /\ log[3].call = "rsync"
  /\ RecordFile \in DOMAIN store

\* C4: when rsync or git checkout -b exits non-zero, create returns an error
\* there (that call is the last thing it did: no git after a failed rsync,
\* no tmux after either), and the record written and the target directory
\* created are still on disk.
C4_ToolFailureStopsNoRollback ==
  \A i \in 1..Len(log) :
    (op.kind = "create" /\ log[i].call \in {"rsync", "git"} /\ log[i].status = "nonzero") =>
      /\ i = Len(log)
      /\ pc = "idle"
      /\ result = "err"
      /\ RecordFile \in DOMAIN store
      /\ Exists(op.directory)

\* C4's case: git checkout -b exits non-zero after rsync succeeded.
C4_Witness ==
  /\ op.kind = "create"
  /\ Len(log) = 4
  /\ log[3] = Call("rsync", op.directory, "ok")
  /\ log[4] = Call("git", op.branch, "nonzero")
  /\ op.directory \in dirs
  /\ result = "err"

\* The answer is y or Y, with nothing but white space around it.
SaysYes(answer) ==
  \E i \in 1..Len(answer) :
    /\ answer[i] \in {"y", "Y"}
    /\ \A j \in 1..Len(answer) : j # i => IsWhitespace(answer[j])

\* The answer is the letter y and the end of the line, nothing else.
SaysExactlyY(answer) == answer = <<"y", "\n">>

\* delete ended with no record selected though the list was read: the list
\* was empty or the selection aborted.
NoneSelected == pc = "idle" /\ op.selected = None /\ ~Called({"read_dir"})

\* delete ended at the prompt with the given kind of answer refused.
Answered == pc = "idle" /\ op.selected # None /\ op.answer # <<>>

\* C5 (as first stated): delete kills, removes a directory or removes a
\* record only after a record was selected and the answer was exactly y;
\* with an empty list, an aborted selection or any other answer it returns
\* success and changes nothing.
C5_OnlyExactY ==
  op.kind = "delete" =>
    /\ Called(DestructiveCalls) => op.selected # None /\ SaysExactlyY(op.answer)
    /\ (NoneSelected \/ (Answered /\ ~SaysExactlyY(op.answer))) =>
         result = "ok" /\ NothingChanged

\* C5: delete kills, removes a directory or removes a record only after a
\* record was selected and the answer, white space around it dropped and
\* lower-cased, was y.  With an empty list, an aborted selection or any
\* other answer nothing is changed and no destructive call is made; delete
\* then returns success, except that an answer that is not UTF-8 text makes
\* it return an error.
C5_DestroysOnlyAfterYes ==
  op.kind = "delete" =>
    /\ Called(DestructiveCalls) => op.selected # None /\ SaysYes(op.answer)
    /\ pc \in {"d_tmux", "d_rmdir", "d_rmfile"} => op.selected # None /\ SaysYes(op.answer)
    /\ (NoneSelected \/ (Answered /\ ~SaysYes(op.answer))) =>
         /\ NothingChanged
         /\ ~Called(DestructiveCalls)
         /\ result = (IF NoneSelected \/ IsUtf8(op.answer) THEN "ok" ELSE "err")

\* C5's case: the answer " Y" confirms, and the record is removed.
C5_Witness ==
  /\ op.kind = "delete"
  /\ op.answer = <<" ", "Y", "\n">>
  /\ pc = "idle"
  /\ result = "ok"
  /\ Called({"remove_dir_all"})
  /\ Called({"remove_file"})
  /\ ~NothingChanged

\* C6: on a confirmed delete the directory removal comes before the record
\* removal; when the directory removal fails, delete returns an error, the
\* record removal is not attempted and the record file is still in the
\* store.
C6_FailedDirRemovalKeepsRecord ==
  op.kind = "delete" =>
    /\ \A i, j \in 1..Len(log) :
         (log[i].call = "remove_dir_all" /\ log[j].call = "remove_file") => i < j
    /\ (\E i \in 1..Len(log) : log[i].call = "remove_dir_all" /\ log[i].status = "io_err") =>
         /\ pc = "idle"
         /\ result = "err"
         /\ ~Called({"remove_file"})
         /\ Selected.path \in DOMAIN store

\* A confirmed delete for which find_tmux_session_or_window returned None,
\* from the directory removal on.
NoSessionCase ==
  /\ op.kind = "delete"
  /\ op.selected # None
  /\ SaysYes(op.answer)
  /\ pc \in {"d_rmdir", "d_rmfile", "idle"}
  /\ op.found = None

\* The selected record's directory existed when delete was invoked.
DirectoryWasPresent ==
  IF Selected.directory = <<>> THEN pre.root ELSE Selected.directory \in pre.dirs

C8_NothingRemains ==
  (op.kind = "delete" /\ pc = "idle" /\ result = "ok" /\ op.selected # None
     /\ SaysYes(op.answer)) =>
    /\ Selected.path \notin DOMAIN store
    /\ ~Exists(Selected.directory)
    /\ TmuxName(Selected.branch) \notin sessions
    /\ \A w \in windows : w[2] # TmuxName(Selected.branch)

\* What was written into the record file, and what reading it gave.
Written == op.metadata[1]
ReadResult == op.read[1].metadata
Listed == op.read[1].repositories

\* C9: a record written by create and read back, by read_ulid_metadata and
\* through get_repositories, has the branch, the created_at and the
\* directory that were written, whatever the branch.
C9_RecordRoundTrip ==
  (op.kind = "put" /\ op.read # None) =>
    /\ ReadResult.ok
    /\ ReadResult.metadata.branch = Written.branch
    /\ ReadResult.metadata.created_at = Written.created_at
    /\ ReadResult.metadata.directory = Written.directory
    /\ Len(Listed) = 1
    /\ Listed[1].branch = Written.branch
    /\ Listed[1].created_at = Written.created_at
    /\ Listed[1].directory = Written.directory[1]

\* C9's case: a branch with a quote and a slash, written at an instant with
\* nanoseconds, has been read back.
C9_Witness ==
  /\ op.kind = "put"
  /\ op.read # None
  /\ Written.branch = <<"\"", "/">>
  /\ Written.created_at.nano = 7
  /\ ReadResult.ok
  /\ ReadResult.metadata.branch = <<"\"", "/">>

\* The planted content of the record file that was read.
Content == store[CodecFile]

\* The content is no structured record.
NotStructured(content) == ~IsUtf8(content) \/ from_str(content) = None

\* s without the white space at its two ends.
Inner(s) ==
  LET solid == {i \in 1..Len(s) : ~IsWhitespace(s[i])}
  IN  IF solid = {} THEN <<>>
      ELSE SubSeq(s, CHOOSE i \in solid : \A j \in solid : i <= j,
                     CHOOSE i \in solid : \A j \in solid : i >= j)

\* s with every "/" replaced by "-".
Dashed(s) == [i \in 1..Len(s) |-> IF s[i] = "/" THEN "-" ELSE s[i]]

\* C10 (as first stated): a file whose content is no structured record is
\* read as a legacy record, whose branch is the content, whose directory is
\* the content with "-" for every "/" and whose created_at is the instant
\* of reading; reading it never fails.
C10_LegacyIsWholeContent ==
  (op.kind = "plant" /\ op.read # None /\ NotStructured(Content)) =>
    /\ ReadResult.ok
    /\ ReadResult.metadata.branch = Content
    /\ ReadResult.metadata.directory = Some(Dashed(Content))
    /\ ReadResult.metadata.created_at = op.read[1].now

\* C10: a file whose content is UTF-8 text but no structured record is read
\* as a legacy record: its branch is the content without the white space at
\* its two ends, its directory is that branch with "-" for every "/", and
\* its created_at is the instant of reading; get_repositories lists it so.
\* Reading fails only when the content is no UTF-8 text, and then
\* get_repositories leaves the file out.
C10_LegacyRecord ==
  (op.kind = "plant" /\ op.read # None /\ NotStructured(Content)) =>
    IF IsUtf8(Content)
      THEN /\ ReadResult.ok
           /\ ReadResult.metadata.branch = Inner(Content)
           /\ ReadResult.metadata.directory = Some(Dashed(Inner(Content)))
           /\ ReadResult.metadata.created_at = op.read[1].now
           /\ Len(Listed) = 1
           /\ Listed[1].branch = Inner(Content)
           /\ Listed[1].directory = Dashed(Inner(Content))
           /\ Listed[1].created_at = op.read[1].now
      ELSE /\ ~ReadResult.ok
           /\ Listed = <<>>

\* C10's case: the content "a/b/c" and a line end has been read as the
\* legacy record of a/b/c.
C10_Witness ==
  /\ op.kind = "plant"
  /\ op.read # None
  /\ Content = <<"a", "/", "b", "/", "c", "\n">>
  /\ ReadResult.ok
  /\ ReadResult.metadata.directory = Some(<<"a", "-", "b", "-", "c">>)
  /\ op.read[1].now.sec = 9

\* The list get_repositories returned, and the order of enumeration.
Repositories == op.read[1].repositories
Enumerated == op.read[1].order

\* The files whose content is UTF-8 text.
TextFiles == {n \in DOMAIN store : \A i \in 1..Len(store[n]) : store[n][i] # BadByte}

\* C11: the list get_repositories returns is in ascending order of branch
\* (no entry's branch is less than that of an entry before it), and holds
\* exactly the records of the store, one per readable file, whatever the
\* order in which the files were enumerated or had come into the store.
C11_ListSortedByBranch ==
  (op.kind = "list" /\ op.read # None) =>
    /\ \A i, j \in 1..Len(Repositories) :
         i < j => ~StrLess(Repositories[j].branch, Repositories[i].branch)
    /\ Len(Repositories) = Cardinality(TextFiles)
    /\ \A n \in TextFiles : \E i \in 1..Len(Repositories) : Repositories[i].path = n

\* C11's case: three files enumerated with the file of branch b first and
\* that of branch B last are listed B, a, b.
C11_Witness ==
  /\ op.kind = "list"
  /\ op.read # None
  /\ Len(Enumerated) = 3
  /\ store[Enumerated[1]] = <<"b">>
  /\ store[Enumerated[2]] = <<"a">>
  /\ store[Enumerated[3]] = <<"B">>
  /\ Len(Repositories) = 3
  /\ Repositories[1].branch = <<"B">>
  /\ Repositories[2].branch = <<"a">>
  /\ Repositories[3].branch = <<"b">>

\* p is a prefix of s, and what of s follows it.
IsPrefix(p, s) == Len(p) <= Len(s) /\ \A i \in 1..Len(p) : s[i] = p[i]
Rest(p, s) == [i \in 1..(Len(s) - Len(p)) |-> s[Len(p) + i]]

\* The entries of the table whose alias is a prefix of the token, and those
\* of them whose expansion is literal (no shell directive).
Matching == {entry \in op.aliases : IsPrefix(entry[1], op.raw)}
IsLiteral(entry) == entry[2] = <<>> \/ entry[2][1] # "!"

\* C12 (as first stated): for every literal entry a -> e of the table and
\* token a+suffix, expand_alias returns e+suffix.
C12_EveryLiteralEntryExpands ==
  op.kind = "expanded" =>
    \A entry \in Matching :
      IsLiteral(entry) => op.branch = entry[2] \o Rest(entry[1], op.raw)

\* C12: for a token a+suffix and a literal entry a -> e that is the only
\* entry of the table whose alias is a prefix of the token, expand_alias
\* returns e+suffix; when several aliases are prefixes of the token and all
\* their expansions are literal, it returns e'+suffix' for one of these
\* entries a' -> e' (the first iterated); in both cases no subprocess is
\* spawned.
C12_LiteralAliasExpands ==
  (op.kind = "expanded" /\ Matching # {} /\ \A entry \in Matching : IsLiteral(entry)) =>
    /\ \E entry \in Matching : op.branch = entry[2] \o Rest(entry[1], op.raw)
    /\ op.spawned = 0

\* C12's case: "xf" under a table of three aliases whose only matching
\* alias is "x", with the literal expansion "g/", has been expanded to
\* "g/f".
C12_Witness ==
  /\ op.kind = "expanded"
  /\ op.raw = <<"x", "f">>
  /\ Matching = {<<(<<"x">>), (<<"g", "/">>)>>}
  /\ Cardinality(op.aliases) = 3
  /\ op.branch = <<"g", "/", "f">>

\* C13: for a token that no alias of the table is a prefix of, expand_alias
\* returns the token unchanged and spawns no subprocess.
C13_NoAliasIsIdentity ==
  (op.kind = "expanded" /\ Matching = {}) =>
    /\ op.branch = op.raw
    /\ op.spawned = 0

\* C13's case: "fx" under a table of three aliases, a shell directive among
\* them, none a prefix of it, has been expanded to itself.
C13_Witness ==
  /\ op.kind = "expanded"
  /\ op.raw = <<"f", "x">>
  /\ Cardinality(op.aliases) = 3
  /\ \E entry \in op.aliases : ~IsLiteral(entry)
  /\ Matching = {}
  /\ op.branch = <<"f", "x">>

\* C14: the directory name of a branch is the branch with "-" in the place
\* of every "/" and nothing else changed: it depends on the branch alone
\* (not on the instant or on anything else), has no "/" left, is the branch
\* itself when the branch has no "/", and is empty for the empty branch.
C14_DirectoryNameOfBranch ==
  op.kind = "put" =>
    /\ Written.directory = Some(Dashed(Written.branch))
    /\ Len(Written.directory[1]) = Len(Written.branch)
    /\ \A i \in 1..Len(Written.branch) :
         Written.directory[1][i] = (IF Written.branch[i] = "/" THEN "-" ELSE Written.branch[i])
    /\ (\A i \in 1..Len(Written.branch) : Written.branch[i] # "/") =>
         Written.directory[1] = Written.branch
    /\ Written.branch = <<>> => Written.directory[1] = <<>>

\* C14's case: the branch "/a" has been given the directory name "-a".
C14_Witness ==
  /\ op.kind = "put"
  /\ Written.branch = <<"/", "a">>
  /\ Written.directory = Some(<<"-", "a">>)

\* C15: get_repo_prefix returns a string of one to three characters: the
\* first three characters of the name parsed from the origin remote's URL
\* when that can be read and parsed, otherwise the first three characters
\* of the current directory's name, otherwise "trr".
C15_PrefixNonEmptyAtMostThree ==
  op.kind = "prefixed" =>
    /\ Len(op.prefix) >= 1
    /\ Len(op.prefix) <= 3
    /\ get_repo_name(op.env.remote) # None =>
         /\ Len(get_repo_name(op.env.remote)[1]) >= Len(op.prefix)
         /\ \A i \in 1..Len(op.prefix) : op.prefix[i] = get_repo_name(op.env.remote)[1][i]
    /\ (get_repo_name(op.env.remote) = None /\ op.env.cwd.ok /\ op.env.cwd.file_name # None) =>
         /\ \A i \in 1..Len(op.prefix) : op.prefix[i] = op.env.cwd.file_name[1][i]
    /\ (get_repo_name(op.env.remote) = None /\ ~(op.env.cwd.ok /\ op.env.cwd.file_name # None)) =>
         op.prefix = <<"t", "r", "r">>

\* C16: a step of create from the point where the record is to be written
\* that leaves no record file of the new identifier in the store (the
\* record store's directory could not be created, or the file not written)
\* ends create with an error: nothing is called after it, the target
\* directory is not created (only the record store's directory may have
\* been), and tmux is untouched.
C16_NoRecordNoCopy ==
  [][(pc = "c_record" /\ UlidFileName(Ulid) \notin DOMAIN store') =>
       /\ pc' = "idle"
       /\ result' = "err"
       /\ log' = log
       /\ store' = store
       /\ dirs' \subseteq dirs \cup {TrrSys}
       /\ sessions' = sessions
       /\ windows' = windows]_vars

\* C16's case: create has ended with an error where the record store's
\* directory was made and the record file was not written.
C16_Witness ==
  /\ op.kind = "create"
  /\ pc = "idle"
  /\ result = "err"
  /\ log = <<>>
  /\ ~TargetExistedAtStart
  /\ op.directory = <<"f", "e", "a", "t", "u", "r", "e", "-", "x">>
  /\ TrrSys \in dirs
  /\ TrrSys \notin pre.dirs
  /\ store = NoFiles

\* The tmux calls of create's session setup, and those of delete.
SetupCalls == {"new-window", "new-session", "send-keys", "select-window", "attach-session"}
KillCalls == {"kill-window", "kill-session"}

\* C17: when a tmux invocation of create's session setup (new-window or
\* new-session, a send-keys, select-window, attach-session) exits non-zero,
\* create stops there and returns an error, and the record and the
\* workspace directory are still in place.
C17_SetupFailureIsFatal ==
  \A i \in 1..Len(log) :
    (op.kind = "create" /\ log[i].call \in SetupCalls /\ log[i].status = "nonzero") =>
      /\ i = Len(log)
      /\ pc = "idle"
      /\ result = "err"
      /\ RecordFile \in DOMAIN store
      /\ Exists(op.directory)

\* C18: when the kill-window or kill-session of a confirmed delete fails
\* (tmux exits non-zero or does not start), delete goes on all the same:
\* it does not end before it has attempted to remove the directory or the
\* record.
C18_KillFailureDoesNotBlock ==
  (op.kind = "delete" /\ pc = "idle"
     /\ \E i \in 1..Len(log) : log[i].call \in KillCalls /\ log[i].status # "ok") =>
    Called({"remove_dir_all", "remove_file"})

\* create has entered setup_tmux_environment and read its environment.
SetupEntered ==
  /\ op.kind = "create"
  /\ pc \in {"c_send", "idle"}
  /\ \E i \in 1..Len(log) : log[i].call = "git" /\ log[i].status = "ok"

\* The names of the calls in the log, and the first of the given calls.
CallNames == {log[i].call : i \in 1..Len(log)}
FirstOf(names) ==
  LET at == {i \in 1..Len(log) : log[i].call \in names}
  IN  IF at = {} THEN "none" ELSE log[CHOOSE i \in at : \A k \in at : i <= k].call

\* The paths of session setup.
Nested == op.env.tmux /\ op.env.cur # NoSession
Standalone == op.env.tmux /\ op.env.cur = NoSession /\ op.env.tty
Headless == op.env.tmux /\ op.env.cur = NoSession /\ ~op.env.tty
Detached == ~op.env.tmux

TmuxUntouched == sessions = pre.sessions /\ windows = pre.windows
Succeeded == pc = "idle" /\ result = "ok"

\* C19: session setup takes one path, by whether tmux is there, whether
\* the process is inside tmux and whether stdin is a terminal.  Without
\* tmux: no tmux call, a warning, success.  Inside tmux: a new window
\* first, the commands, and at the end of a successful setup the switch to
\* the window; no session call.  Outside tmux on a terminal: a new session
\* first, the commands, and at the end of a successful setup the attach; no
\* window call.  Outside tmux without a terminal: the path is reported, no
\* tmux call, success.  Never both a new window and a new session.
C19_OneSetupPath ==
  SetupEntered =>
    /\ ~({"new-window", "new-session"} \subseteq CallNames)
    /\ Detached =>
         /\ CallNames \cap SetupCalls = {}
         /\ "warn_no_tmux" \in CallNames
         /\ Succeeded
         /\ TmuxUntouched
    /\ Headless =>
         /\ CallNames \cap SetupCalls = {}
         /\ "report_path" \in CallNames
         /\ Succeeded
         /\ TmuxUntouched
    /\ Nested =>
         /\ CallNames \cap SetupCalls \subseteq {"new-window", "send-keys", "select-window"}
         /\ FirstOf(SetupCalls) = "new-window"
         /\ sessions = pre.sessions
         /\ Succeeded =>
              /\ log[Len(log)].call = "select-window"
              /\ <<op.env.cur, TmuxName(op.branch)>> \in windows
    /\ Standalone =>
         /\ CallNames \cap SetupCalls \subseteq {"new-session", "send-keys", "attach-session"}
         /\ FirstOf(SetupCalls) = "new-session"
         /\ windows = pre.windows
         /\ Succeeded =>
              /\ log[Len(log)].call = "attach-session"
              /\ TmuxName(op.branch) \in sessions

\* C19's case: a create outside tmux on a terminal has made a session,
\* sent both commands and attached.
C19_Witness ==
  /\ SetupEntered
  /\ Standalone
  /\ Succeeded
  /\ Len(log) = 8
  /\ log[5] = Call("new-session", TmuxName(op.branch), "ok")
  /\ log[6].call = "send-keys"
  /\ log[7].call = "send-keys"
  /\ log[8] = Call("attach-session", TmuxName(op.branch), "ok")
  /\ windows = {}

\* A confirmed delete has searched tmux and killed what it found.
SearchDone ==
  /\ op.kind = "delete"
  /\ op.selected # None
  /\ SaysYes(op.answer)
  /\ pc \in {"d_rmdir", "d_rmfile"} \/ (pc = "idle" /\ log # <<>>)

\* <repoPrefix>-<branch> of the selected record, and what the listings of
\* this delete showed: the windows of the session delete runs in, when it
\* runs inside tmux, and the sessions.
KillName == <<"t", "r", "r", "-">> \o Selected.branch
WindowListed == op.env.tmux /\ op.env.cur # NoSession /\ <<op.env.cur, KillName>> \in pre.windows
SessionListed == op.env.tmux /\ KillName \in pre.sessions

\* C20: a confirmed delete issues kill-window exactly when it runs inside
\* tmux and a window of the name <repoPrefix>-<branch> is listed; if not, it
\* issues kill-session exactly when a session of that name is listed; if
\* not, no kill.  The names match by equality, the kill names that name,
\* and there is at most one kill.
C20_KillWhatIsFound ==
  SearchDone =>
    /\ Called({"kill-window"}) <=> WindowListed
    /\ Called({"kill-session"}) <=> (~WindowListed /\ SessionListed)
    /\ Cardinality({i \in 1..Len(log) : log[i].call \in KillCalls}) <= 1
    /\ \A i \in 1..Len(log) : log[i].call \in KillCalls => i = 1 /\ log[i].arg = KillName

\* C20's case: a delete inside tmux, where no window but a session of the
\* name is listed, has killed the session.
C20_Witness ==
  /\ SearchDone
  /\ op.env.cur # NoSession
  /\ ~WindowListed
  /\ SessionListed
  /\ log[1] = Call("kill-session", KillName, "ok")
  /\ KillName \notin sessions
  /\ pc = "idle"
  /\ result = "ok"

\* The commands that the initialization text (the line "v @@args @@args", a
\* blank line, the line "g") stands for, under the arguments of this
\* create: none, or p and q.
ExpectedCommands ==
  IF op.args = <<>>
    THEN << <<"v", " ", " ">>, <<"g">> >>
    ELSE << <<"v", " ", "p", " ", "q", " ", "p", " ", "q">>, <<"g">> >>

\* The commands sent so far, in the order of sending, and the places of
\* the calls that make the window or session and that switch to it.
SentAt == {i \in 1..Len(log) : log[i].call = "send-keys"}
Sent == [k \in 1..Cardinality(SentAt) |->
           log[CHOOSE i \in SentAt : Cardinality({m \in SentAt : m <= i}) = k].arg]
MadeAt == {i \in 1..Len(log) : log[i].call \in {"new-window", "new-session"}}
FocusAt == {i \in 1..Len(log) : log[i].call \in {"select-window", "attach-session"}}

\* C21: in the nested and in the standalone path the commands are sent
\* after the window or session was made, and they are, in order, the
\* non-blank lines of the initialization text with every @@args replaced
\* by the arguments joined with single spaces; the focus switch or the
\* attach comes only when all of them have been sent.
C21_CommandsThenFocus ==
  (SetupEntered /\ (Nested \/ Standalone)) =>
    /\ Cardinality(SentAt) <= Len(ExpectedCommands)
    /\ \A k \in 1..Cardinality(SentAt) : Sent[k] = ExpectedCommands[k]
    /\ \A i \in SentAt : \E m \in MadeAt : m < i /\ log[m].status = "ok"
    /\ \A f \in FocusAt :
         /\ Cardinality(SentAt) = Len(ExpectedCommands)
         /\ \A i \in SentAt : i < f
         /\ f = Len(log)
    /\ Succeeded => FocusAt # {}

\* C21's case: inside tmux, with the arguments p and q, both commands were
\* sent and then the window selected.
C21_Witness ==
  /\ SetupEntered
  /\ Nested
  /\ op.args = << <<"p">>, <<"q">> >>
  /\ Len(log) = 8
  /\ log[5].call = "new-window"
  /\ log[6] = Call("send-keys", <<"v", " ", "p", " ", "q", " ", "p", " ", "q">>, "ok")
  /\ log[7] = Call("send-keys", <<"g">>, "nonzero")
  /\ log[8].call = "select-window"

\* The shell command of an alias was run and failed: it did not start, or
\* it exited with a status other than 0.
ShellFailed ==
  /\ op.spawned >= 1
  /\ ~op.env.ok \/ op.env.status = "nonzero"

\* C22: when the token matches an alias with a shell directive and running
\* the command fails, expand_alias returns the raw token unchanged.
C22_FailedShellGivesRawToken ==
  (op.kind = "expanded" /\ ShellFailed) => op.branch = op.raw

\* C23: get_repositories does not abort over an entry that cannot be read:
\* the records of all readable files are returned, and the unreadable
\* entry is in the list as well (flagged), not dropped: every file of the
\* store has its entry.
C23_UnreadableEntryRetained ==
  (op.kind = "list" /\ op.read # None) =>
    /\ \A n \in TextFiles : \E i \in 1..Len(Repositories) : Repositories[i].path = n
    /\ \A n \in DOMAIN store : \E i \in 1..Len(Repositories) : Repositories[i].path = n
    /\ Len(Repositories) = Cardinality(DOMAIN store)

\* C24: the record removal of delete, reached when the record's file is no
\* longer in the store, succeeds and leaves the store as it is.
C24_RemovalOfAbsentRecordSucceeds ==
  [][(pc = "d_rmfile" /\ Selected.path \notin DOMAIN store) =>
       /\ pc' = "idle"
       /\ result' = "ok"
       /\ store' = store]_vars

\* C25: at no time do two records of the store have the same directory
\* name, and a create whose directory name is that of a record in the store
\* at its start adds no record.
C25_NoTwoRecordsOfOneDirectory ==
  /\ \A n, m \in ReadableFiles : n # m => RecordDirectory(n) # RecordDirectory(m)
  /\ (op.kind = "create" /\ Calls("load_config") = {}
        /\ \E n \in DOMAIN pre.store :
             read_ulid_metadata(pre.store[n], Now).ok
             /\ Repository(n, read_ulid_metadata(pre.store[n], Now).metadata).directory
                  = op.directory) =>
       ~Called({"write_record"})

\* C26: a confirmed delete of a record leaves every other record file of the
\* store as it was and every other workspace directory under the sync root in
\* place, whatever the directory name of the record.
C26_DeleteTouchesOnlyItsRecord ==
  (op.kind = "delete" /\ op.selected # None /\ SaysYes(op.answer)) =>
    /\ \A n \in (DOMAIN pre.store) \ {Selected.path} :
         n \in DOMAIN store /\ store[n] = pre.store[n]
    /\ \A d \in pre.dirs \ {Selected.directory, TrrSys} : d \in dirs

====
